---- MODULE Spec2Model ----
(***************************************************************************)
(* Model of the DubADubDub frontend API client (src/frontend/js/api.js):    *)
(* the status poller DubbingAPI.pollForCompletion and the operation-level   *)
(* retry wrapper DubbingAPI.withRetry, as state machines whose steps are    *)
(* the synchronous segments between two awaits of the async functions.      *)
(***************************************************************************)
EXTENDS Integers, Sequences, FiniteSets, TLC

VARIABLES
    \* ---- DubbingAPI fields (constructor, api.js:4-11)
    maxRetries,         \* this.maxRetries
    pollInterval,       \* this.pollInterval
    autoRetryEnabled,   \* this.autoRetryEnabled
    retryDelays,        \* this.retryDelays
    \* ---- one pollForCompletion call (api.js:130-164)
    pollPc,             \* "idle" | "fetching" | "sleepOk" | "sleepRetry" | "resolved" | "rejected"
    pollSessionId,      \* the sessionId argument
    hasOnUpdate,        \* whether an onUpdate callback was passed
    retries,            \* the local failure counter
    requests,           \* session ids of the checkStatus requests issued, in order
    fetched,            \* outcome of every finished checkStatus, in order
    delivered,          \* statuses handed to onUpdate, in order
    pollSleeps,         \* durations passed to sleep(), in order
    pollResult,         \* how the returned promise settled
    \* ---- one withRetry call (api.js:226-258)
    retryPc,            \* "idle" | "running" | "sleeping" | "resolved" | "rejected"
    enabledAtCall,      \* this.autoRetryEnabled at the moment of the call
    retryDirect,        \* the call took the `if (!this.autoRetryEnabled)` branch
    retryArg,           \* the maxRetries argument: <<>> for null, <<n>> for n
    operationName,      \* the operationName argument
    maxAttempts,        \* local maxAttempts
    attempt,            \* loop variable attempt
    lastError,          \* local lastError
    invocations,        \* outcome of every operation() invocation, in order
    retrySleeps,        \* durations passed to sleep(), in order
    retryResult,        \* how the returned promise settled
    \* ---- the server side (spec.md sections 3, 4.2-4.4)
    registry,           \* the Session records, by session identifier
    orchestrations,     \* number of runJob tasks in flight, per session
    rejectedRuns,       \* sessions for which a runJob was rejected
    invoked,            \* stages whose operation was invoked, per session
    stageInvocations,   \* failed invocations of the current stage, per session
    stageFailures,      \* kinds the current stage failed with, per session
    lastRead,           \* the latest status read, per session
    \* ---- DubbingApp (app.js)
    isProcessing,       \* this.isProcessing
    controlsDisabled,   \* submitBtn, urlInput and languageSelect are disabled
    currentSessionId,   \* this.currentSessionId, "null" for null
    section,            \* which of the status, error and result sections is shown
    progressFill,       \* the width given to the progress bar, in percent
    fieldError,         \* a field error is shown in the form
    runs,               \* the startDubbing calls made so far, by number
    successPending,     \* showSuccess calls waiting for getDownloadUrl
    submitIgnored,      \* a submit event was dropped because isProcessing was set
    \* ---- one submitBatch call (api.js:52-71)
    batchPc,            \* "idle" | "submitting" | "resolved" | "rejected"
    batchInput,         \* the youtubeUrls argument
    batchHasProgress,   \* whether an onProgress callback was passed
    batchResults,       \* local results
    batchProgress,      \* arguments of the onProgress calls, in order
    batchSubmits,       \* submitVideo calls made, in order
    batchOutcomes       \* how the submitVideo calls settled, in order

apiVars   == <<maxRetries, pollInterval, autoRetryEnabled, retryDelays>>
pollVars  == <<pollPc, pollSessionId, hasOnUpdate, retries, requests, fetched,
               delivered, pollSleeps, pollResult>>
retryVars == <<retryPc, enabledAtCall, retryDirect, retryArg, operationName, maxAttempts, attempt,
               lastError, invocations, retrySleeps, retryResult>>
jobVars   == <<registry, orchestrations, rejectedRuns, invoked, stageInvocations,
               stageFailures, lastRead>>
appVars   == <<isProcessing, controlsDisabled, currentSessionId, section, progressFill,
               fieldError, runs, successPending, submitIgnored>>
batchVars == <<batchPc, batchInput, batchHasProgress, batchResults, batchProgress,
               batchSubmits, batchOutcomes>>
uiVars    == <<appVars, batchVars>>
vars      == <<apiVars, pollVars, retryVars, jobVars, uiVars>>

-----------------------------------------------------------------------------
(* Bounds of the model *)

\* checkStatus requests explored per pollForCompletion call
MaxPolls == 5

\* largest maxRetries argument passed to withRetry
MaxRetryArg == 4

\* the configured per-stage retry cap of the orchestrator
StageRetryCap == 2

\* startDubbing calls explored
MaxRuns == 3

\* longest list of URLs passed to submitBatch
MaxBatch == 3

-----------------------------------------------------------------------------
(* Strings: String.prototype.toLowerCase / includes, template literals *)

LowerChar(c) ==
    CASE c = "A" -> "a" [] c = "B" -> "b" [] c = "C" -> "c" [] c = "D" -> "d"
      [] c = "E" -> "e" [] c = "F" -> "f" [] c = "G" -> "g" [] c = "H" -> "h"
      [] c = "I" -> "i" [] c = "J" -> "j" [] c = "K" -> "k" [] c = "L" -> "l"
      [] c = "M" -> "m" [] c = "N" -> "n" [] c = "O" -> "o" [] c = "P" -> "p"
      [] c = "Q" -> "q" [] c = "R" -> "r" [] c = "S" -> "s" [] c = "T" -> "t"
      [] c = "U" -> "u" [] c = "V" -> "v" [] c = "W" -> "w" [] c = "X" -> "x"
      [] c = "Y" -> "y" [] c = "Z" -> "z" [] OTHER -> c

\* the characters of s from the i-th on, each in lower case
RECURSIVE LowerFrom(_, _)
LowerFrom(s, i) ==
    IF i > Len(s) THEN ""
    ELSE LowerChar(SubSeq(s, i, i)) \o LowerFrom(s, i + 1)

toLowerCase(s) == LowerFrom(s, 1)

includes(s, sub) ==
    \E i \in 1..(Len(s) - Len(sub) + 1) : SubSeq(s, i, i + Len(sub) - 1) = sub

Digit(d) ==
    CASE d = 0 -> "0" [] d = 1 -> "1" [] d = 2 -> "2" [] d = 3 -> "3" [] d = 4 -> "4"
      [] d = 5 -> "5" [] d = 6 -> "6" [] d = 7 -> "7" [] d = 8 -> "8" [] d = 9 -> "9"

\* `${n}` for a non-negative integer
RECURSIVE NumStr(_)
NumStr(n) == IF n < 10 THEN Digit(n) ELSE NumStr(n \div 10) \o Digit(n % 10)

\* new Error(message); thrownBy = k > 0 marks the error object thrown by the
\* k-th invocation of the operation given to withRetry
NewError(message) == [message |-> message, thrownBy |-> 0]

NoError == [message |-> "", thrownBy |-> 0]

-----------------------------------------------------------------------------
(* The constructor *)

DefaultMaxRetries == 3

DefaultPollInterval == 2000

DefaultRetryDelays == <<1000, 3000, 5000>>

Constructor ==
    /\ maxRetries = DefaultMaxRetries
    /\ pollInterval = DefaultPollInterval
    /\ autoRetryEnabled = TRUE
    /\ retryDelays = DefaultRetryDelays

setAutoRetry(enabled) ==
    /\ autoRetryEnabled' = enabled
    /\ UNCHANGED <<maxRetries, pollInterval, retryDelays>>

-----------------------------------------------------------------------------
(* checkStatus (api.js:78-98) and what the server can answer *)

Sessions == {"s1", "s2"}

\* `undefined`
Undefined == [status |-> "undefined", error |-> "", progress |-> 0]

\* bodies of 2xx answers of GET /status/{sessionId}
StatusBodies ==
    { [status |-> "processing", error |-> "", progress |-> 40],
      [status |-> "completed", error |-> "", progress |-> 100],
      [status |-> "error", error |-> "Video unavailable", progress |-> 40],
      [status |-> "failed", error |-> "", progress |-> 0] }

\* messages of what is thrown inside checkStatus' try block: fetch() rejecting,
\* or a non-2xx answer without detail
TransportFailures == {"Failed to fetch", "HTTP error! status: 500"}

\* the catch block of checkStatus wraps every failure
checkStatusError(inner) == NewError("Failed to check status: " \o inner)

\* what an onUpdate callback throws, when it throws
CallbackError == NewError("onUpdate threw")

FetchFailure(err) ==
    [kind |-> "failure", status |-> Undefined, error |-> err, cbThrew |-> FALSE]

FetchStatus(status, cbThrew) ==
    [kind |-> "status", status |-> status, error |-> NoError, cbThrew |-> cbThrew]

-----------------------------------------------------------------------------
(* The server side: session registry, pipeline orchestrator and status      *)
(* projection.  The backend sources are not part of src/; this section      *)
(* follows the design text (spec.md sections 3 and 4.1-4.4).                 *)

\* the fixed stage order
Stages == <<"download", "transcribe", "translate", "synthesize", "overlay">>

StageSet == { Stages[i] : i \in 1..Len(Stages) }

\* position in queued, download, ..., overlay, completed
StageRank(stage) ==
    IF stage = "queued" THEN 0
    ELSE IF stage = "completed" THEN Len(Stages) + 1
    ELSE CHOOSE i \in 1..Len(Stages) : Stages[i] = stage

NextStage(stage) ==
    IF StageRank(stage) = Len(Stages) THEN "completed" ELSE Stages[StageRank(stage) + 1]

\* lower bound of the band of the 0-100 scale a stage owns
BandLow(stage) ==
    CASE stage = "queued"     -> 0
      [] stage = "download"   -> 20
      [] stage = "transcribe" -> 35
      [] stage = "translate"  -> 55
      [] stage = "synthesize" -> 75
      [] stage = "overlay"    -> 90
      [] stage = "completed"  -> 100

\* kinds of the error taxonomy a stage invocation fails with here
ErrorKinds == {"network", "rateLimit", "resourceUnavailable", "auth", "badInput"}

\* variant of the taxonomy in which malformed input is worth another try
RetryableExceptAuth(kind) == kind # "auth"

\* the taxonomy's retryable flag
Retryable(kind) == kind \in {"network", "rateLimit", "resourceUnavailable", "internal"}

NoErrorRecord == [stage |-> "", kind |-> "", retryable |-> FALSE]

ErrorRecord(stage, kind) == [stage |-> stage, kind |-> kind, retryable |-> Retryable(kind)]

\* the Session a create() stores
NewSession ==
    [stage |-> "queued", progress |-> BandLow("queued"), retryCount |-> 0,
     artifact |-> "submission", error |-> NoErrorRecord]

Terminal(session) == session.stage \in {"completed", "failed"}

\* variant of the projection that reports the stage field as it is
StatusProjectionRawStage(session) ==
    [status |-> IF session.stage = "failed" THEN "error"
                ELSE IF session.stage = "completed" THEN "completed"
                ELSE "processing",
     currentStage |-> session.stage,
     progress |-> session.progress,
     error |-> session.error]

\* the external shape of a Session snapshot; a failed session shows the stage
\* it failed in
StatusProjection(session) ==
    [status |-> IF session.stage = "failed" THEN "error"
                ELSE IF session.stage = "completed" THEN "completed"
                ELSE "processing",
     currentStage |-> IF session.stage = "failed" THEN session.error.stage
                      ELSE session.stage,
     progress |-> session.progress,
     error |-> session.error]

NoRead == [status |-> "none", currentStage |-> "", progress |-> 0, error |-> NoErrorRecord]

\* registry.mutate(sessionId, fn): one transition of one session
mutate(sessionId, session) == [registry EXCEPT ![sessionId] = session]

\* registry.create(params) for the identifier the registry allocates
create(sessionId) ==
    /\ sessionId \notin DOMAIN registry
    /\ registry' = [s \in DOMAIN registry \cup {sessionId} |->
                        IF s = sessionId THEN NewSession ELSE registry[s]]
    /\ UNCHANGED <<orchestrations, rejectedRuns, invoked, stageInvocations,
                   stageFailures, lastRead>>
    /\ UNCHANGED <<apiVars, pollVars, retryVars, uiVars>>

\* variant of the admission test that lets every runJob through
MayStartAlways(sessionId) == TRUE

\* variant of the admission test that only refuses finished sessions
MayStartWhileRunning(sessionId) == registry[sessionId].stage \notin {"completed", "failed"}

\* the registry admits an orchestration for a freshly created session that
\* has none in flight
MayStart(sessionId) ==
    /\ registry[sessionId].stage = "queued"
    /\ orchestrations[sessionId] = 0

\* the session as its task enters the first stage
Started(session) ==
    [session EXCEPT !.stage = Stages[1], !.progress = BandLow(Stages[1]), !.retryCount = 0]

\* runJob(session): admitted, and the task enters the first stage; or rejected
runJob(sessionId) ==
    /\ sessionId \in DOMAIN registry
    /\ IF MayStart(sessionId)
       THEN /\ orchestrations' = [orchestrations EXCEPT ![sessionId] = @ + 1]
            /\ registry' = mutate(sessionId, Started(registry[sessionId]))
            /\ UNCHANGED rejectedRuns
       ELSE /\ sessionId \notin rejectedRuns
            /\ rejectedRuns' = rejectedRuns \cup {sessionId}
            /\ UNCHANGED <<orchestrations, registry>>
    /\ UNCHANGED <<invoked, stageInvocations, stageFailures, lastRead>>
    /\ UNCHANGED <<apiVars, pollVars, retryVars, uiVars>>

\* a task of the session is in flight and has a stage to run
Running(sessionId) ==
    /\ sessionId \in DOMAIN registry
    /\ orchestrations[sessionId] > 0
    /\ registry[sessionId].stage \in StageSet

\* variant of the success update that starts the next stage's progress at zero
AdvancedResetsProgress(session) ==
    LET next == NextStage(session.stage)
    IN  [session EXCEPT !.stage = next,
                        !.progress = IF next = "completed" THEN BandLow(next) ELSE 0,
                        !.retryCount = 0, !.artifact = session.stage]

\* the session after its stage operation succeeded
Advanced(session) ==
    LET next == NextStage(session.stage)
    IN  [session EXCEPT !.stage = next, !.progress = BandLow(next),
                        !.retryCount = 0, !.artifact = session.stage]

\* variant of the cap test that allows one retry more
BelowCapInclusive(session) == session.retryCount <= StageRetryCap

\* retryCount for this stage is below the per-stage cap
BelowCap(session) == session.retryCount < StageRetryCap

\* variant of the failure handling whose retry restarts the pipeline
AfterFailureRestarts(session, kind) ==
    IF Retryable(kind) /\ session.retryCount < StageRetryCap
    THEN [session EXCEPT !.stage = Stages[1], !.retryCount = @ + 1]
    ELSE [session EXCEPT !.stage = "failed",
                         !.error = [stage |-> session.stage, kind |-> kind,
                                    retryable |-> Retryable(kind)]]

\* the session after its stage operation failed with an error of this kind
AfterFailure(session, kind) ==
    IF Retryable(kind) /\ BelowCap(session)
    THEN [session EXCEPT !.retryCount = @ + 1]
    ELSE [session EXCEPT !.stage = "failed",
                         !.error = ErrorRecord(session.stage, kind)]

\* the task invokes the stage operation, which succeeds
StageSucceeds(sessionId) ==
    /\ Running(sessionId)
    /\ LET session == registry[sessionId]
           after == Advanced(session)
       IN  /\ registry' = mutate(sessionId, after)
           /\ invoked' = [invoked EXCEPT ![sessionId] = @ \cup {session.stage}]
           /\ orchestrations' = [orchestrations EXCEPT ![sessionId] =
                                    IF Terminal(after) THEN @ - 1 ELSE @]
    /\ stageInvocations' = [stageInvocations EXCEPT ![sessionId] = 0]
    /\ stageFailures' = [stageFailures EXCEPT ![sessionId] = {}]
    /\ UNCHANGED <<rejectedRuns, lastRead>>
    /\ UNCHANGED <<apiVars, pollVars, retryVars, uiVars>>

\* the task invokes the stage operation, which fails; a retry follows its
\* backoff delay
StageFails(sessionId, kind) ==
    /\ Running(sessionId)
    /\ LET session == registry[sessionId]
           after == AfterFailure(session, kind)
       IN  /\ registry' = mutate(sessionId, after)
           /\ invoked' = [invoked EXCEPT ![sessionId] = @ \cup {session.stage}]
           /\ orchestrations' = [orchestrations EXCEPT ![sessionId] =
                                    IF Terminal(after) THEN @ - 1 ELSE @]
    /\ stageInvocations' = [stageInvocations EXCEPT ![sessionId] = @ + 1]
    /\ stageFailures' = [stageFailures EXCEPT ![sessionId] = @ \cup {kind}]
    /\ UNCHANGED <<rejectedRuns, lastRead>>
    /\ UNCHANGED <<apiVars, pollVars, retryVars, uiVars>>

\* registry.get(sessionId) projected by the status endpoint: what a status read
\* does to the server side
get(sessionId) ==
    /\ lastRead' = [lastRead EXCEPT ![sessionId] = StatusProjection(registry[sessionId])]
    /\ UNCHANGED <<registry, orchestrations, rejectedRuns, invoked, stageInvocations,
                   stageFailures>>

\* a status read of a known session by some client
StatusRead(sessionId) ==
    /\ sessionId \in DOMAIN registry
    /\ get(sessionId)
    /\ UNCHANGED <<apiVars, pollVars, retryVars, uiVars>>

\* POST /process-video: a session is created for an identifier not in use yet
\* (none is created once the identifiers of the model are used up)
Submit ==
    IF DOMAIN registry = Sessions
    THEN UNCHANGED jobVars
    ELSE LET sessionId == CHOOSE id \in Sessions \ DOMAIN registry : TRUE
         IN  /\ registry' = [s \in DOMAIN registry \cup {sessionId} |->
                                 IF s = sessionId THEN NewSession ELSE registry[s]]
             /\ UNCHANGED <<orchestrations, rejectedRuns, invoked, stageInvocations,
                            stageFailures, lastRead>>

\* what a request does to the server side: the status interface reads, the
\* submit interface creates, anything else is refused
Serve(request) ==
    IF request.method = "GET" /\ request.path = "/status/"
    THEN IF request.sessionId \in DOMAIN registry
         THEN get(request.sessionId)
         ELSE UNCHANGED jobVars
    ELSE IF request.method = "POST" /\ request.path = "/process-video"
    THEN Submit
    ELSE UNCHANGED jobVars

JobInit ==
    /\ registry = << >>
    /\ orchestrations = [s \in Sessions |-> 0]
    /\ rejectedRuns = {}
    /\ invoked = [s \in Sessions |-> {}]
    /\ stageInvocations = [s \in Sessions |-> 0]
    /\ stageFailures = [s \in Sessions |-> {}]
    /\ lastRead = [s \in Sessions |-> NoRead]

\* what the orchestrator and the registry do for one session
JobStep(sessionId) ==
    \/ create(sessionId)
    \/ runJob(sessionId)
    \/ StageSucceeds(sessionId)
    \/ \E kind \in ErrorKinds : StageFails(sessionId, kind)

-----------------------------------------------------------------------------
(* pollForCompletion (api.js:130-164) *)

\* status.error || 'Processing failed'
JobError(status) ==
    NewError(IF status.error = "" THEN "Processing failed" ELSE status.error)

AggregatedPollError(error) ==
    NewError("Status polling failed after " \o NumStr(maxRetries)
             \o " retries: " \o error.message)

\* variant of the request of checkStatus that goes to the submit interface
checkStatusRequestPosts(sessionId) ==
    [method |-> "POST", path |-> "/process-video", sessionId |-> sessionId]

\* the request checkStatus sends: fetch(`${this.baseUrl}/status/${sessionId}`,
\* { method: 'GET', ... }) (api.js:80-85)
checkStatusRequest(sessionId) ==
    [method |-> "GET", path |-> "/status/", sessionId |-> sessionId]

\* the loop test `while (retries < this.maxRetries)` with counter value r: the
\* next checkStatus request goes out and reaches the server, or the function
\* falls off its end
LoopTop(r, sessionId) ==
    IF r < maxRetries
    THEN /\ Len(requests) < MaxPolls
         /\ pollPc' = "fetching"
         /\ requests' = Append(requests, sessionId)
         /\ Serve(checkStatusRequest(sessionId))
         /\ UNCHANGED pollResult
    ELSE /\ pollPc' = "resolved"
         /\ pollResult' = [kind |-> "resolved", value |-> Undefined, error |-> NoError]
         /\ UNCHANGED <<requests, jobVars>>

\* variant of the catch block giving up one failure late (`>` for `>=`)
PollCatchOffByOne(error) ==
    /\ retries' = retries + 1
    /\ IF retries + 1 > maxRetries
       THEN /\ pollPc' = "rejected"
            /\ pollResult' = [kind |-> "rejected", value |-> Undefined,
                              error |-> AggregatedPollError(error)]
            /\ UNCHANGED pollSleeps
       ELSE /\ pollPc' = "sleepRetry"
            /\ pollSleeps' = Append(pollSleeps, pollInterval * (retries + 1))
            /\ UNCHANGED pollResult
    /\ UNCHANGED requests

\* variant of the catch block that retries only while auto-retry is enabled
PollCatchHonoursAutoRetry(error) ==
    /\ retries' = retries + 1
    /\ IF retries + 1 >= maxRetries \/ ~autoRetryEnabled
       THEN /\ pollPc' = "rejected"
            /\ pollResult' = [kind |-> "rejected", value |-> Undefined,
                              error |-> AggregatedPollError(error)]
            /\ UNCHANGED pollSleeps
       ELSE /\ pollPc' = "sleepRetry"
            /\ pollSleeps' = Append(pollSleeps, pollInterval * (retries + 1))
            /\ UNCHANGED pollResult
    /\ UNCHANGED requests

\* the catch block (api.js:152-162)
PollCatch(error) ==
    /\ retries' = retries + 1
    /\ IF retries + 1 >= maxRetries
       THEN /\ pollPc' = "rejected"
            /\ pollResult' = [kind |-> "rejected", value |-> Undefined,
                              error |-> AggregatedPollError(error)]
            /\ UNCHANGED pollSleeps
       ELSE /\ pollPc' = "sleepRetry"
            /\ pollSleeps' = Append(pollSleeps, pollInterval * (retries + 1))
            /\ UNCHANGED pollResult
    /\ UNCHANGED requests

\* the call itself, up to its first await
pollForCompletion(sessionId, onUpdate) ==
    /\ pollPc = "idle"
    /\ pollSessionId' = sessionId
    /\ hasOnUpdate' = onUpdate
    /\ retries' = 0
    /\ LoopTop(0, sessionId)
    /\ UNCHANGED <<fetched, delivered, pollSleeps>>
    /\ UNCHANGED <<apiVars, retryVars, uiVars>>

\* `await this.checkStatus(sessionId)` rejects
CheckStatusFails(inner) ==
    /\ pollPc = "fetching"
    /\ fetched' = Append(fetched, FetchFailure(checkStatusError(inner)))
    /\ PollCatch(checkStatusError(inner))
    /\ UNCHANGED <<pollSessionId, hasOnUpdate, delivered>>
    /\ UNCHANGED <<apiVars, retryVars, jobVars, uiVars>>

\* variant of the try block calling onUpdate only once the status turned out
\* not to be terminal
PollTryDeliversLate(status, cbThrows) ==
    IF status.status = "completed"
    THEN /\ pollPc' = "resolved"
         /\ pollResult' = [kind |-> "resolved", value |-> status, error |-> NoError]
         /\ UNCHANGED <<retries, requests, pollSleeps, delivered>>
    ELSE IF status.status = "error" \/ status.status = "failed"
    THEN /\ PollCatch(JobError(status))
         /\ UNCHANGED delivered
    ELSE /\ delivered' = IF hasOnUpdate THEN Append(delivered, status) ELSE delivered
         /\ IF hasOnUpdate /\ cbThrows
            THEN PollCatch(CallbackError)
            ELSE /\ pollPc' = "sleepOk"
                 /\ pollSleeps' = Append(pollSleeps, pollInterval)
                 /\ UNCHANGED <<retries, requests, pollResult>>

\* the try block after a status arrived (api.js:137-149)
PollTry(status, cbThrows) ==
    /\ delivered' = IF hasOnUpdate THEN Append(delivered, status) ELSE delivered
    /\ IF hasOnUpdate /\ cbThrows
       THEN PollCatch(CallbackError)
       ELSE IF status.status = "completed"
       THEN /\ pollPc' = "resolved"
            /\ pollResult' = [kind |-> "resolved", value |-> status, error |-> NoError]
            /\ UNCHANGED <<retries, requests, pollSleeps>>
       ELSE IF status.status = "error" \/ status.status = "failed"
       THEN PollCatch(JobError(status))
       ELSE /\ pollPc' = "sleepOk"
            /\ pollSleeps' = Append(pollSleeps, pollInterval)
            /\ UNCHANGED <<retries, requests, pollResult>>

\* `await this.checkStatus(sessionId)` resolves with a status
CheckStatusReturns(status, cbThrows) ==
    /\ pollPc = "fetching"
    /\ cbThrows => hasOnUpdate
    /\ fetched' = Append(fetched, FetchStatus(status, cbThrows))
    /\ PollTry(status, cbThrows)
    /\ UNCHANGED <<pollSessionId, hasOnUpdate>>
    /\ UNCHANGED <<apiVars, retryVars, jobVars, uiVars>>

\* sleep(pollInterval) is over: `retries = 0`, then the loop test
WakeAfterPoll ==
    /\ pollPc = "sleepOk"
    /\ retries' = 0
    /\ LoopTop(0, pollSessionId)
    /\ UNCHANGED <<pollSessionId, hasOnUpdate, fetched, delivered, pollSleeps>>
    /\ UNCHANGED <<apiVars, retryVars, uiVars>>

\* sleep(pollInterval * retries) is over: the loop test
WakeAfterRetry ==
    /\ pollPc = "sleepRetry"
    /\ LoopTop(retries, pollSessionId)
    /\ UNCHANGED <<pollSessionId, hasOnUpdate, retries, fetched, delivered, pollSleeps>>
    /\ UNCHANGED <<apiVars, retryVars, uiVars>>

PollInit ==
    /\ pollPc = "idle"
    /\ pollSessionId = "s1"
    /\ hasOnUpdate = FALSE
    /\ retries = 0
    /\ requests = <<>>
    /\ fetched = <<>>
    /\ delivered = <<>>
    /\ pollSleeps = <<>>
    /\ pollResult = [kind |-> "pending", value |-> Undefined, error |-> NoError]

PollNext ==
    \/ \E sessionId \in Sessions, onUpdate \in BOOLEAN :
           pollForCompletion(sessionId, onUpdate)
    \/ \E inner \in TransportFailures : CheckStatusFails(inner)
    \/ \E status \in StatusBodies, cbThrows \in BOOLEAN :
           CheckStatusReturns(status, cbThrows)
    \/ WakeAfterPoll
    \/ WakeAfterRetry

\* the caller gives the poll up while it is suspended: the page is left or
\* reloaded, and nothing of the call runs any more
AbandonPoll ==
    /\ pollPc \in {"fetching", "sleepOk", "sleepRetry"}
    /\ pollPc' = "abandoned"
    /\ UNCHANGED <<pollSessionId, hasOnUpdate, retries, requests, fetched, delivered,
                   pollSleeps, pollResult>>
    /\ UNCHANGED <<apiVars, retryVars, jobVars, uiVars>>

\* the preference toggle, callable at any time (app.js:743-745)
ToggleAutoRetry ==
    /\ \E enabled \in BOOLEAN : setAutoRetry(enabled)
    /\ UNCHANGED <<pollVars, retryVars, jobVars, uiVars>>

-----------------------------------------------------------------------------
(* withRetry (api.js:226-258) and isNonRetryableError (api.js:265-275) *)

\* variant of isNonRetryableError that forgets toLowerCase()
isNonRetryableErrorCaseSensitive(error) ==
    LET message == error.message
    IN  \/ includes(message, "unauthorized")
        \/ includes(message, "forbidden")
        \/ includes(message, "not found")
        \/ includes(message, "bad request")
        \/ includes(message, "invalid")
        \/ includes(message, "malformed")

isNonRetryableError(error) ==
    LET message == toLowerCase(error.message)
    IN  \/ includes(message, "unauthorized")
        \/ includes(message, "forbidden")
        \/ includes(message, "not found")
        \/ includes(message, "bad request")
        \/ includes(message, "invalid")
        \/ includes(message, "malformed")

\* messages of the errors an operation can throw: for submitVideo, fetch()
\* rejecting or a non-2xx answer (data.detail, or the HTTP status line)
OperationFailures ==
    { "Failed to fetch", "HTTP error! status: 503",
      "Invalid YouTube URL", "Session Not Found" }

\* what an operation can return: for submitVideo, the response body
OperationResults == {"session s1", "session s2"}

OperationNames == {"video submission"}

\* the maxRetries argument: null (omitted), or a number
RetryArgs == {<<>>} \cup { <<n>> : n \in 0..MaxRetryArg }

\* maxRetries || this.maxRetries
OrDefault(arg, default) == IF arg = <<>> \/ arg = <<0>> THEN default ELSE arg[1]

\* variant of the delay lookup that starts one entry late
RetryDelayShifted(i) ==
    retryDelays[(IF i + 1 < Len(retryDelays) - 1 THEN i + 1 ELSE Len(retryDelays) - 1) + 1]

\* this.retryDelays[Math.min(attempt, this.retryDelays.length - 1)], 0-based
RetryDelay(i) ==
    retryDelays[(IF i < Len(retryDelays) - 1 THEN i ELSE Len(retryDelays) - 1) + 1]

\* variant of the aggregated error that counts retries, not attempts
AggregatedRetryErrorCountsRetries(name, max, last) ==
    NewError(name \o " failed after " \o NumStr(max) \o " attempts: "
             \o last.message)

AggregatedRetryError(name, max, last) ==
    NewError(name \o " failed after " \o NumStr(max + 1) \o " attempts: "
             \o last.message)

Returned(value) == [kind |-> "returned", value |-> value, error |-> NoError]

Threw(error) == [kind |-> "threw", value |-> "", error |-> error]

\* variant of withRetry that ignores the preference
NeverDirectBranch == FALSE

\* `if (!this.autoRetryEnabled)` (api.js:227)
DirectBranch == ~autoRetryEnabled

\* the call itself, up to its first await: the first operation() is started
withRetry(name, arg) ==
    /\ retryPc = "idle"
    /\ operationName' = name
    /\ retryArg' = arg
    /\ enabledAtCall' = autoRetryEnabled
    /\ retryDirect' = DirectBranch
    /\ maxAttempts' = IF DirectBranch THEN 0 ELSE OrDefault(arg, maxRetries)
    /\ attempt' = 0
    /\ retryPc' = "running"
    /\ UNCHANGED <<lastError, invocations, retrySleeps, retryResult>>
    /\ UNCHANGED <<apiVars, pollVars, jobVars, uiVars>>

\* `await operation()` resolves
OperationReturns(value) ==
    /\ retryPc = "running"
    /\ invocations' = Append(invocations, Returned(value))
    /\ retryPc' = "resolved"
    /\ retryResult' = [kind |-> "resolved", value |-> value, error |-> NoError]
    /\ UNCHANGED <<enabledAtCall, retryDirect, retryArg, operationName, maxAttempts, attempt,
                   lastError, retrySleeps>>
    /\ UNCHANGED <<apiVars, pollVars, jobVars, uiVars>>

\* the catch block of the loop (api.js:240-254), and the loop's exit
RetryCatch(error) ==
    /\ lastError' = error
    /\ IF isNonRetryableError(error)
       THEN /\ retryPc' = "rejected"
            /\ retryResult' = [kind |-> "rejected", value |-> "", error |-> error]
            /\ UNCHANGED <<attempt, retrySleeps>>
       ELSE IF attempt < maxAttempts
       THEN /\ retryPc' = "sleeping"
            /\ retrySleeps' = Append(retrySleeps, RetryDelay(attempt))
            /\ UNCHANGED <<attempt, retryResult>>
       ELSE /\ attempt' = attempt + 1
            /\ retryPc' = "rejected"
            /\ retryResult' =
                   [kind |-> "rejected", value |-> "",
                    error |-> AggregatedRetryError(operationName, maxAttempts, error)]
            /\ UNCHANGED retrySleeps

\* `await operation()` rejects
OperationThrows(message) ==
    /\ retryPc = "running"
    /\ LET error == [message |-> message, thrownBy |-> Len(invocations) + 1]
       IN  /\ invocations' = Append(invocations, Threw(error))
           /\ IF retryDirect
              THEN /\ retryPc' = "rejected"
                   /\ retryResult' = [kind |-> "rejected", value |-> "", error |-> error]
                   /\ UNCHANGED <<attempt, lastError, retrySleeps>>
              ELSE RetryCatch(error)
    /\ UNCHANGED <<enabledAtCall, retryDirect, retryArg, operationName, maxAttempts>>
    /\ UNCHANGED <<apiVars, pollVars, jobVars, uiVars>>

\* sleep(delay) is over: attempt++, the loop test, the next operation() is started
WakeForRetry ==
    /\ retryPc = "sleeping"
    /\ attempt' = attempt + 1
    /\ retryPc' = IF attempt + 1 <= maxAttempts THEN "running" ELSE "rejected"
    /\ retryResult' =
           IF attempt + 1 <= maxAttempts THEN retryResult
           ELSE [kind |-> "rejected", value |-> "",
                 error |-> AggregatedRetryError(operationName, maxAttempts, lastError)]
    /\ UNCHANGED <<enabledAtCall, retryDirect, retryArg, operationName, maxAttempts, lastError,
                   invocations, retrySleeps>>
    /\ UNCHANGED <<apiVars, pollVars, jobVars, uiVars>>

RetryIdle ==
    /\ retryPc = "idle"
    /\ enabledAtCall = TRUE
    /\ retryDirect = FALSE
    /\ retryArg = <<>>
    /\ operationName = "operation"
    /\ maxAttempts = 0
    /\ attempt = 0
    /\ lastError = NoError
    /\ invocations = <<>>
    /\ retrySleeps = <<>>
    /\ retryResult = [kind |-> "pending", value |-> "", error |-> NoError]

\* the caller has the outcome; the next call can be made
RetrySettled ==
    /\ retryPc \in {"resolved", "rejected"}
    /\ retryPc' = "idle"
    /\ enabledAtCall' = TRUE
    /\ retryDirect' = FALSE
    /\ retryArg' = <<>>
    /\ operationName' = "operation"
    /\ maxAttempts' = 0
    /\ attempt' = 0
    /\ lastError' = NoError
    /\ invocations' = <<>>
    /\ retrySleeps' = <<>>
    /\ retryResult' = [kind |-> "pending", value |-> "", error |-> NoError]
    /\ UNCHANGED <<apiVars, pollVars, jobVars, uiVars>>

RetryNext ==
    \/ \E name \in OperationNames, arg \in RetryArgs : withRetry(name, arg)
    \/ \E value \in OperationResults : OperationReturns(value)
    \/ \E message \in OperationFailures : OperationThrows(message)
    \/ WakeForRetry
    \/ RetrySettled

-----------------------------------------------------------------------------
(* DubbingApp (app.js): form events, startDubbing and handleStatusUpdate.    *)
(* A run is one call of startDubbing; the submitVideo and pollForCompletion  *)
(* calls it awaits advance by the steps of api.js.                           *)

RunIds == 1..MaxRuns

\* `undefined` where a status is expected
NoStatus == [status |-> "none", current_stage |-> "", progress |-> 0]

\* a run that has not been started, and the fields a settled run keeps
UnusedRun ==
    [pc |-> "unused", session |-> "null", polled |-> "null", requested |-> FALSE,
     retries |-> 0, lastRead |-> NoStatus, monotone |-> TRUE, shown |-> 0,
     errorsShown |-> 0, submitFailed |-> FALSE, pollFailed |-> FALSE,
     rejected |-> FALSE, settledProcessing |-> FALSE, settledDisabled |-> FALSE]

InFlight(run) == run.pc \in {"submitting", "polling"}

RunsInFlight == { r \in RunIds : InFlight(runs[r]) }

\* status bodies the server answers a run of the application with
RunStatuses ==
    { [status |-> "processing", current_stage |-> "download", progress |-> 0],
      [status |-> "completed", current_stage |-> "completed", progress |-> 100],
      [status |-> "error", current_stage |-> "download", progress |-> 0] }

\* status bodies with every stage name and with progress absent, small, full
\* and beyond the scale
DisplayStatuses ==
    { [status |-> "processing", current_stage |-> stage, progress |-> progress] :
          stage \in {"", "queued", "download", "transcribe", "translate",
                     "synthesize", "overlay"},
          progress \in {0, 5, 100, 150} }
    \cup { [status |-> "completed", current_stage |-> "completed", progress |-> 100],
           [status |-> "completed", current_stage |-> "overlay", progress |-> 100],
           [status |-> "error", current_stage |-> "translate", progress |-> 55] }

\* the switch of handleStatusUpdate (app.js:264-306)
StageProgress(currentStage) ==
    CASE currentStage = "download"   -> 20
      [] currentStage = "transcribe" -> 35
      [] currentStage = "translate"  -> 55
      [] currentStage = "synthesize" -> 75
      [] currentStage = "overlay"    -> 90
      [] OTHER -> IF currentStage = "" THEN 10 ELSE 20

\* variant of the clamp that lets a full bar through
DisplayedProgressFull(status) ==
    IF status.progress # 0
    THEN (IF status.progress < 100 THEN status.progress ELSE 100)
    ELSE StageProgress(status.current_stage)

\* the progress handleStatusUpdate passes to updateStatus (app.js:308-312):
\* `if (status.progress) progress = Math.min(status.progress, 99)`
DisplayedProgress(status) ==
    IF status.progress # 0
    THEN (IF status.progress < 99 THEN status.progress ELSE 99)
    ELSE StageProgress(status.current_stage)

\* stage order as far as the client's stage names go
ReportedRank(currentStage) == IF currentStage = "" THEN 0 ELSE StageRank(currentStage)

\* a status read follows another without going back in stage or progress
ReadFollows(old, new) ==
    \/ old = NoStatus
    \/ /\ ReportedRank(new.current_stage) >= ReportedRank(old.current_stage)
       /\ new.progress >= old.progress

\* variant of the finally block that leaves the flags as they are
FinallyKeeps == [isProcessing |-> isProcessing, controlsDisabled |-> controlsDisabled]

\* the finally block of startDubbing (app.js:256-259)
Finally == [isProcessing |-> FALSE, controlsDisabled |-> FALSE]

\* what a run keeps once startDubbing settled
Settled(run, submitFailed, pollFailed, errors) ==
    [UnusedRun EXCEPT !.pc = "settled",
                      !.requested = run.requested,
                      !.errorsShown = run.errorsShown + errors,
                      !.submitFailed = submitFailed,
                      !.pollFailed = pollFailed,
                      !.settledProcessing = Finally.isProcessing,
                      !.settledDisabled = Finally.controlsDisabled]

\* the run leaves through catch (showError) and finally
RunFails(r, submitFailed) ==
    /\ runs' = [runs EXCEPT ![r] = Settled(runs[r], submitFailed, ~submitFailed, 1)]
    /\ section' = "error"
    /\ isProcessing' = Finally.isProcessing
    /\ controlsDisabled' = Finally.controlsDisabled
    /\ UNCHANGED <<currentSessionId, progressFill, successPending>>

\* variant of the continuation after submitVideo that polls the session id
\* the application held before
AfterSubmitPollsStale(run, sessionId) ==
    [run EXCEPT !.pc = "polling", !.session = sessionId, !.polled = currentSessionId,
                !.requested = TRUE, !.shown = 20]

\* the run after `await this.api.submitVideo(...)` resolved (app.js:242-251):
\* currentSessionId is assigned and handed to pollForCompletion, whose first
\* status request goes out
AfterSubmit(run, sessionId) ==
    [run EXCEPT !.pc = "polling", !.session = sessionId, !.polled = sessionId,
                !.requested = TRUE, !.shown = 20]

\* a submit event with a valid or an invalid form (app.js:138-158) and the
\* synchronous start of startDubbing (app.js:230-242)
handleSubmit(valid) ==
    /\ IF isProcessing
       THEN /\ ~submitIgnored
            /\ submitIgnored' = TRUE
            /\ UNCHANGED <<isProcessing, controlsDisabled, currentSessionId, section,
                           progressFill, fieldError, runs, successPending>>
       ELSE IF ~valid
       THEN /\ ~fieldError
            /\ fieldError' = TRUE
            /\ UNCHANGED <<isProcessing, controlsDisabled, currentSessionId, section,
                           progressFill, runs, successPending, submitIgnored>>
       ELSE /\ \E r \in RunIds :
                   /\ runs[r].pc = "unused"
                   /\ \A q \in 1..(r - 1) : runs[q].pc # "unused"
                   /\ runs' = [runs EXCEPT ![r] =
                                   [UnusedRun EXCEPT !.pc = "submitting", !.shown = 10]]
            /\ isProcessing' = TRUE
            /\ controlsDisabled' = TRUE
            /\ section' = "status"
            /\ progressFill' = 10
            /\ fieldError' = FALSE
            /\ UNCHANGED <<currentSessionId, successPending, submitIgnored>>
    /\ UNCHANGED <<apiVars, pollVars, retryVars, jobVars, batchVars>>

\* submitVideo resolves with a session id
SubmitResolves(r, sessionId) ==
    /\ runs[r].pc = "submitting"
    /\ currentSessionId' = sessionId
    /\ runs' = [runs EXCEPT ![r] = AfterSubmit(runs[r], sessionId)]
    /\ section' = "status"
    /\ progressFill' = 20
    /\ UNCHANGED <<isProcessing, controlsDisabled, fieldError, successPending, submitIgnored>>
    /\ UNCHANGED <<apiVars, pollVars, retryVars, jobVars, batchVars>>

\* submitVideo rejects, after the retries of withRetry if any
SubmitRejects(r) ==
    /\ runs[r].pc = "submitting"
    /\ RunFails(r, TRUE)
    /\ UNCHANGED <<fieldError, submitIgnored>>
    /\ UNCHANGED <<apiVars, pollVars, retryVars, jobVars, batchVars>>

\* the catch block of the run's pollForCompletion (api.js:152-162)
RunPollCatch(r, run) ==
    IF run.retries + 1 >= maxRetries
    THEN RunFails(r, FALSE)
    ELSE /\ runs' = [runs EXCEPT ![r] = [run EXCEPT !.retries = @ + 1]]
         /\ UNCHANGED <<isProcessing, controlsDisabled, currentSessionId, section,
                        progressFill, successPending>>

\* a status request of the run's poll fails
RunFetchFails(r) ==
    /\ runs[r].pc = "polling"
    /\ RunPollCatch(r, runs[r])
    /\ UNCHANGED <<fieldError, submitIgnored>>
    /\ UNCHANGED <<apiVars, pollVars, retryVars, jobVars, batchVars>>

\* a status arrives at the run's poll: handleStatusUpdate (app.js:262-316)
\* shows it or starts showSuccess, then the rest of the try block decides
\* (api.js:141-150)
RunStatusArrives(r, status) ==
    /\ runs[r].pc = "polling"
    /\ LET shows == status.current_stage # "completed"
           run == [runs[r] EXCEPT
                       !.lastRead = status,
                       !.monotone = @ /\ ReadFollows(runs[r].lastRead, status),
                       !.shown = IF shows THEN DisplayedProgress(status) ELSE @]
           outcome == IF status.status = "completed" THEN "resolve"
                      ELSE IF status.status = "error" \/ status.status = "failed"
                      THEN (IF run.retries + 1 >= maxRetries THEN "reject" ELSE "retry")
                      ELSE "continue"
       IN  /\ progressFill' = IF shows THEN DisplayedProgress(status) ELSE progressFill
           /\ successPending' = IF shows THEN successPending ELSE successPending + 1
           /\ section' = IF outcome = "reject" THEN "error"
                         ELSE IF shows THEN "status" ELSE section
           /\ runs' = [runs EXCEPT ![r] =
                           CASE outcome = "resolve"  -> Settled(run, FALSE, FALSE, 0)
                             [] outcome = "reject"   -> Settled(run, FALSE, TRUE, 1)
                             [] outcome = "retry"    -> [run EXCEPT !.retries = @ + 1]
                             [] outcome = "continue" -> [run EXCEPT !.retries = 0]]
           /\ isProcessing' = IF outcome \in {"resolve", "reject"}
                              THEN Finally.isProcessing ELSE isProcessing
           /\ controlsDisabled' = IF outcome \in {"resolve", "reject"}
                                  THEN Finally.controlsDisabled ELSE controlsDisabled
    /\ UNCHANGED <<currentSessionId, fieldError, submitIgnored>>
    /\ UNCHANGED <<apiVars, pollVars, retryVars, jobVars, batchVars>>

\* a showSuccess call started by handleStatusUpdate comes back from
\* getDownloadUrl (app.js:828-858)
ShowSuccessReturns(ok) ==
    /\ successPending > 0
    /\ successPending' = successPending - 1
    /\ section' = IF ok THEN "result" ELSE "error"
    /\ UNCHANGED <<isProcessing, controlsDisabled, currentSessionId, progressFill,
                   fieldError, runs, submitIgnored>>
    /\ UNCHANGED <<apiVars, pollVars, retryVars, jobVars, batchVars>>

\* resetForm (app.js:861-891), as the override defines it
resetForm ==
    /\ currentSessionId' = "null"
    /\ isProcessing' = FALSE
    /\ section' = "none"
    /\ fieldError' = FALSE
    /\ controlsDisabled' = FALSE
    /\ UNCHANGED <<progressFill, runs, successPending, submitIgnored>>
    /\ UNCHANGED <<apiVars, pollVars, retryVars, jobVars, batchVars>>

\* a click on the button of the result section
NewDubbingClicked == section = "result" /\ resetForm

\* a click on the retry button of the error section (app.js:481-485)
handleRetry == section = "error" /\ resetForm

AppInit ==
    /\ isProcessing = FALSE
    /\ controlsDisabled = FALSE
    /\ currentSessionId = "null"
    /\ section = "none"
    /\ progressFill = 0
    /\ fieldError = FALSE
    /\ runs = [r \in RunIds |-> UnusedRun]
    /\ successPending = 0
    /\ submitIgnored = FALSE

\* the steps of the runs, answered from a set of status bodies
RunSteps(statuses) ==
    \E r \in RunIds :
        \/ \E sessionId \in Sessions : SubmitResolves(r, sessionId)
        \/ SubmitRejects(r)
        \/ RunFetchFails(r)
        \/ \E status \in statuses : RunStatusArrives(r, status)

\* the application under its events
AppNext ==
    \/ \E valid \in BOOLEAN : handleSubmit(valid)
    \/ RunSteps(RunStatuses)
    \/ \E ok \in BOOLEAN : ShowSuccessReturns(ok)
    \/ NewDubbingClicked
    \/ handleRetry

\* runs started from the form one after the other, under every status body
DisplayNext ==
    \/ handleSubmit(TRUE)
    \/ RunSteps(DisplayStatuses)

-----------------------------------------------------------------------------
(* submitBatch (api.js:52-71) *)

BatchUrls == {"url a", "url b"}

\* the lists of at most MaxBatch URLs
BatchInputs == UNION { [1..n -> BatchUrls] : n \in 0..MaxBatch }

\* variant of the catch block that files a failed submission as a success
FailureResultMarkedSuccess(url, message) ==
    [url |-> url, success |-> TRUE, payload |-> message]

\* results.push({ url, success: false, error: error.message })
FailureResult(url, message) == [url |-> url, success |-> FALSE, payload |-> message]

\* results.push({ url, success: true, result })
SuccessResult(url, result) == [url |-> url, success |-> TRUE, payload |-> result]

\* the loop from its test to the await of submitVideo, with i URLs done:
\* onProgress is called, then the URL is submitted
BatchLoop(urls, hasProgress, i, results, progressThrows) ==
    IF i < Len(urls)
    THEN /\ batchProgress' =
                IF hasProgress
                THEN Append(batchProgress,
                            [current |-> i + 1, total |-> Len(urls), currentUrl |-> urls[i + 1],
                             submitted |-> Len(batchSubmits)])
                ELSE batchProgress
         /\ IF hasProgress /\ progressThrows
            THEN /\ batchPc' = "rejected"
                 /\ UNCHANGED batchSubmits
            ELSE /\ batchPc' = "submitting"
                 /\ batchSubmits' = Append(batchSubmits,
                                           [url |-> urls[i + 1], done |-> Len(results)])
    ELSE /\ batchPc' = "resolved"
         /\ UNCHANGED <<batchProgress, batchSubmits>>

\* the call itself, up to its first await or its return
submitBatch(youtubeUrls, onProgress, progressThrows) ==
    /\ batchPc = "idle"
    /\ progressThrows => onProgress
    /\ batchInput' = youtubeUrls
    /\ batchHasProgress' = onProgress
    /\ batchResults' = <<>>
    /\ BatchLoop(youtubeUrls, onProgress, 0, <<>>, progressThrows)
    /\ UNCHANGED batchOutcomes
    /\ UNCHANGED <<apiVars, pollVars, retryVars, jobVars, appVars>>

\* `await this.submitVideo(url, ...)` resolves
BatchSubmitResolves(result, progressThrows) ==
    /\ batchPc = "submitting"
    /\ progressThrows => batchHasProgress
    /\ LET results == Append(batchResults,
                             SuccessResult(batchInput[Len(batchResults) + 1], result))
       IN  /\ batchResults' = results
           /\ BatchLoop(batchInput, batchHasProgress, Len(results), results, progressThrows)
    /\ batchOutcomes' = Append(batchOutcomes, "resolved")
    /\ UNCHANGED <<batchInput, batchHasProgress>>
    /\ UNCHANGED <<apiVars, pollVars, retryVars, jobVars, appVars>>

\* `await this.submitVideo(url, ...)` rejects
BatchSubmitRejects(message, progressThrows) ==
    /\ batchPc = "submitting"
    /\ progressThrows => batchHasProgress
    /\ LET results == Append(batchResults,
                             FailureResult(batchInput[Len(batchResults) + 1], message))
       IN  /\ batchResults' = results
           /\ BatchLoop(batchInput, batchHasProgress, Len(results), results, progressThrows)
    /\ batchOutcomes' = Append(batchOutcomes, "rejected")
    /\ UNCHANGED <<batchInput, batchHasProgress>>
    /\ UNCHANGED <<apiVars, pollVars, retryVars, jobVars, appVars>>

BatchInit ==
    /\ batchPc = "idle"
    /\ batchInput = <<>>
    /\ batchHasProgress = FALSE
    /\ batchResults = <<>>
    /\ batchProgress = <<>>
    /\ batchSubmits = <<>>
    /\ batchOutcomes = <<>>

BatchNext ==
    \/ \E youtubeUrls \in BatchInputs, onProgress \in BOOLEAN, progressThrows \in BOOLEAN :
           submitBatch(youtubeUrls, onProgress, progressThrows)
    \/ \E result \in OperationResults, progressThrows \in BOOLEAN :
           BatchSubmitResolves(result, progressThrows)
    \/ \E message \in OperationFailures, progressThrows \in BOOLEAN :
           BatchSubmitRejects(message, progressThrows)

-----------------------------------------------------------------------------
(* Specifications *)

Init == Constructor /\ PollInit /\ RetryIdle /\ JobInit /\ AppInit /\ BatchInit

JobNext == \E sessionId \in Sessions : JobStep(sessionId)

\* one session, its orchestration and a client reading its status
StatusNext == \E sessionId \in {"s1"} : JobStep(sessionId) \/ StatusRead(sessionId)

Next ==
    \/ PollNext \/ RetryNext \/ ToggleAutoRetry
    \/ JobNext
    \/ \E sessionId \in Sessions : StatusRead(sessionId)
    \/ AppNext
    \/ BatchNext

\* the poller and the wrapper side by side
Spec == Init /\ [][Next]_vars

\* the poller alone (no withRetry call is made)
SpecPoll == Init /\ [][PollNext \/ ToggleAutoRetry]_vars

\* the wrapper alone (no poll is started)
SpecRetry == Init /\ [][RetryNext \/ ToggleAutoRetry]_vars

\* the wrapper alone, with setTimeout firing after every sleep(delay) and an
\* operation that fails whenever it does not return
SpecRetryFair ==
    /\ SpecRetry
    /\ WF_vars(WakeForRetry)
    /\ WF_vars(\E message \in OperationFailures : OperationThrows(message))

\* a poll of session s1 without callback, next to the job of that session
ObserveNext ==
    \/ pollForCompletion("s1", FALSE)
    \/ \E inner \in TransportFailures : CheckStatusFails(inner)
    \/ \E status \in StatusBodies : CheckStatusReturns(status, FALSE)
    \/ WakeAfterPoll
    \/ WakeAfterRetry
    \/ AbandonPoll
    \/ create("s1")
    \/ runJob("s1")
    \/ StageSucceeds("s1")
    \/ StageFails("s1", "badInput")

SpecObserve == Init /\ [][ObserveNext]_vars

\* a client whose maxRetries field was assigned after construction
InitConfigured ==
    /\ maxRetries \in 0..DefaultMaxRetries
    /\ pollInterval = DefaultPollInterval
    /\ autoRetryEnabled = TRUE
    /\ retryDelays = DefaultRetryDelays
    /\ PollInit /\ RetryIdle /\ JobInit /\ AppInit /\ BatchInit

\* the poller of such a client
SpecPollConfigured == InitConfigured /\ [][PollNext \/ ToggleAutoRetry]_vars

\* the application under form, retry and new-dubbing events
SpecApp == Init /\ [][AppNext]_vars

\* the progress the application displays
SpecDisplay == Init /\ [][DisplayNext]_vars

\* submitBatch alone
SpecBatch == Init /\ [][BatchNext]_vars

\* the registry and the orchestrations of the sessions
SpecJob == Init /\ [][JobNext]_vars

\* one session observed by status reads
SpecStatus == Init /\ [][StatusNext]_vars

\* the same, with a stage operation that always returns and a task that is
\* scheduled after every backoff delay
SpecStatusFair ==
    /\ SpecStatus
    /\ WF_vars(StageSucceeds("s1") \/ \E kind \in ErrorKinds : StageFails("s1", kind))

-----------------------------------------------------------------------------
(* Properties of pollForCompletion *)

IsTransportFailure(e) == e.kind = "failure"

IsJobErrorStatus(e) == e.kind = "status" /\ e.status.status \in {"error", "failed"}

IsProcessingFetch(e) == e.kind = "status" /\ e.status.status = "processing"

IsCompletedFetch(e) == e.kind = "status" /\ e.status.status = "completed"

PollSettled == pollPc \in {"resolved", "rejected"}

\* the number of consecutive transport failures ending with the i-th fetch
RECURSIVE ConsecutiveFailures(_)
ConsecutiveFailures(i) ==
    IF i = 0 \/ ~IsTransportFailure(fetched[i]) THEN 0
    ELSE 1 + ConsecutiveFailures(i - 1)

\* C1: once a fetched status says 'error' or 'failed', no further checkStatus
\* request is issued: if the i-th answer is a job error, at most i requests
\* were ever sent.
C1_NoRequestAfterJobError ==
    \A i \in 1..Len(fetched) :
        IsJobErrorStatus(fetched[i]) => Len(requests) <= i

\* C2: a fetched status = error makes the poll stop and reject with the error
\* carried by that status as it is, not with the aggregated polling error.
C2_JobErrorRejectsAsIs ==
    \A i \in 1..Len(fetched) :
        (fetched[i].kind = "status" /\ fetched[i].status.status = "error")
        => /\ pollPc = "rejected"
           /\ pollResult.kind = "rejected"
           /\ pollResult.error.message = fetched[i].status.error

\* C3: while every fetch so far succeeded with status = processing, the poll
\* has not settled and every wait it made lasted pollInterval.
C3_ProcessingNeverSettles ==
    (\A i \in 1..Len(fetched) : IsProcessingFetch(fetched[i]))
    => /\ ~PollSettled
       /\ \A i \in 1..Len(pollSleeps) : pollSleeps[i] = pollInterval

\* C4: maxRetries consecutive checkStatus failures end the poll: it is rejected
\* with the aggregated error naming the last of these failures, and the last
\* of them is the last request ever made.
C4_ExhaustionRejectsAggregated ==
    \A j \in 1..Len(fetched) :
        ConsecutiveFailures(j) >= maxRetries
        => /\ pollPc = "rejected"
           /\ pollResult.kind = "rejected"
           /\ pollResult.error.message =
                  "Status polling failed after 3 retries: " \o fetched[j].error.message
           /\ Len(fetched) = j
           /\ Len(requests) = j

\* a poll that went on after a first status, then met maxRetries transport
\* failures in a row, the last two of them different
C4_Witness ==
    /\ pollPc = "rejected"
    /\ Len(fetched) = 4
    /\ IsProcessingFetch(fetched[1])
    /\ ConsecutiveFailures(4) = 3
    /\ fetched[4].error # fetched[3].error

\* C5: when a request goes out right after a successful processing fetch the
\* failure counter is zero, and the poll is rejected only after maxRetries
\* consecutive transport failures.
C5_CounterResetAfterProcessing ==
    /\ (pollPc = "fetching" /\ Len(fetched) >= 1
            /\ IsProcessingFetch(fetched[Len(fetched)]))
       => retries = 0
    /\ pollPc = "rejected" => ConsecutiveFailures(Len(fetched)) >= maxRetries

\* C6: the wait after the k-th consecutive transport failure is pollInterval * k,
\* and the wait after a successful processing poll is pollInterval.
C6_LinearBackoff ==
    \A i \in 1..Len(pollSleeps) :
        /\ IsTransportFailure(fetched[i])
           => pollSleeps[i] = pollInterval * ConsecutiveFailures(i)
        /\ IsProcessingFetch(fetched[i]) => pollSleeps[i] = pollInterval

\* C7: a fetched status = completed resolves the poll with that very snapshot,
\* and it is the answer to the last request ever made.
C7_CompletedResolves ==
    \A i \in 1..Len(fetched) :
        IsCompletedFetch(fetched[i])
        => /\ pollPc = "resolved"
           /\ pollResult.kind = "resolved"
           /\ pollResult.value = fetched[i].status
           /\ Len(requests) = i

-----------------------------------------------------------------------------
(* Properties of withRetry *)

\* the operation failures the taxonomy calls not retryable (bad input, not found)
NotRetryableFailures == {"Invalid YouTube URL", "Session Not Found"}

\* the operation failures that are transient
RetryableFailures == {"Failed to fetch", "HTTP error! status: 503"}

RetrySettledNow == retryPc \in {"resolved", "rejected"}

AllRetryable ==
    \A k \in 1..Len(invocations) :
        /\ invocations[k].kind = "threw"
        /\ invocations[k].error.message \in RetryableFailures

\* C8: an operation failure that is not retryable ends the call at once: the
\* call is rejected with that same error, the failing invocation is the last
\* one, and no delay follows it (only the earlier failures were waited on).
C8_NonRetryableRethrown ==
    \A k \in 1..Len(invocations) :
        (invocations[k].kind = "threw"
            /\ invocations[k].error.message \in NotRetryableFailures)
        => /\ retryPc = "rejected"
           /\ retryResult.kind = "rejected"
           /\ retryResult.error = invocations[k].error
           /\ Len(invocations) = k
           /\ Len(retrySleeps) = k - 1

\* a not-retryable failure on a later attempt of a retrying call
C8_Witness ==
    /\ retryPc = "rejected"
    /\ enabledAtCall
    /\ Len(invocations) = 3
    /\ invocations[3].kind = "threw"
    /\ invocations[3].error.message = "Session Not Found"

\* the counting part of C9, as a state predicate
RetryBounded ==
    (retryPc # "idle" /\ enabledAtCall /\ retryArg = <<>> /\ AllRetryable)
    => /\ Len(invocations) <= maxRetries + 1
       /\ Len(invocations) = maxRetries + 1 <=> RetrySettledNow
       /\ RetrySettledNow
          => /\ retryResult.kind = "rejected"
             /\ retryResult.error.message =
                    operationName \o " failed after 4 attempts: "
                    \o invocations[Len(invocations)].error.message

\* C9: with auto-retry enabled and the cap left to this.maxRetries, a call whose
\* operation fails with a retryable error every time never makes more than
\* maxRetries + 1 invocations, is settled as soon as it made that many, and
\* settles only then, rejected with "<name> failed after <maxRetries + 1>
\* attempts: <message of the last failure>"; and every call in flight settles.
C9_RetryTerminates ==
    /\ []RetryBounded
    /\ (retryPc \in {"running", "sleeping"}) ~> RetrySettledNow

\* four retryable failures in a row, the last two different, under the default cap
C9_Witness ==
    /\ retryPc = "rejected"
    /\ enabledAtCall
    /\ retryArg = <<>>
    /\ AllRetryable
    /\ Len(invocations) = 4
    /\ invocations[4].error.message # invocations[3].error.message

\* C10: a call made while auto-retry is disabled invokes the operation once,
\* never sleeps, and settles with the operation's own result or error; a call
\* made while it is enabled retries again: it is rejected after one invocation
\* only when that failure is not retryable.
C10_DisabledPassThrough ==
    /\ (retryPc # "idle" /\ ~enabledAtCall)
       => /\ Len(invocations) <= 1
          /\ retrySleeps = <<>>
          /\ RetrySettledNow
             => /\ Len(invocations) = 1
                /\ invocations[1].kind = "returned"
                   => /\ retryResult.kind = "resolved"
                      /\ retryResult.value = invocations[1].value
                /\ invocations[1].kind = "threw"
                   => /\ retryResult.kind = "rejected"
                      /\ retryResult.error = invocations[1].error
    /\ (retryPc = "rejected" /\ enabledAtCall /\ Len(invocations) = 1)
       => invocations[1].error.message \in NotRetryableFailures

\* a call made with auto-retry disabled whose operation failed in a way that
\* would have been retried
C10_Witness ==
    /\ retryPc = "rejected"
    /\ ~enabledAtCall
    /\ ~autoRetryEnabled
    /\ Len(invocations) = 1
    /\ invocations[1].kind = "threw"
    /\ invocations[1].error.message \in RetryableFailures

-----------------------------------------------------------------------------
(* Further properties of pollForCompletion and withRetry *)

\* the statuses among the first i fetch outcomes, in fetch order
RECURSIVE StatusesOf(_)
StatusesOf(i) ==
    IF i = 0 THEN <<>>
    ELSE IF fetched[i].kind = "status"
    THEN Append(StatusesOf(i - 1), fetched[i].status)
    ELSE StatusesOf(i - 1)

\* C18: what onUpdate has been handed is exactly the successfully fetched
\* statuses, once each and in fetch order, nothing for a failed fetch; and the
\* callback runs before the status is acted on: a status whose callback threw
\* was delivered but never resolved the poll.
C18_EveryStatusDelivered ==
    /\ delivered = IF hasOnUpdate THEN StatusesOf(Len(fetched)) ELSE <<>>
    /\ \A i \in 1..Len(fetched) :
           fetched[i].cbThrew
           => /\ fetched[i].status \in { delivered[k] : k \in 1..Len(delivered) }
              /\ ~(pollPc = "resolved" /\ i = Len(fetched))

\* a poll with a callback that saw a failed fetch between statuses and resolved
C18_Witness ==
    /\ hasOnUpdate
    /\ pollPc = "resolved"
    /\ Len(fetched) = 4
    /\ Len(delivered) = 3
    /\ IsTransportFailure(fetched[2])
    /\ fetched[1].cbThrew

\* the wait that follows the k-th failed attempt of a call (k = 1, 2, ...)
ScheduledDelay(k) == <<1000, 3000, 5000>>[IF k < 3 THEN k ELSE 3]

-----------------------------------------------------------------------------
(* Properties of the orchestrator, the registry and the status projection *)

NonRetryableKinds == {"badInput", "auth"}

\* the record of a session in a registry, for identifiers it does not know too
SessionOf(reg, sessionId) ==
    IF sessionId \in DOMAIN reg THEN reg[sessionId]
    ELSE [NewSession EXCEPT !.stage = "absent"]

\* the stage a status read shows
ObservedStage(read) == IF read.status = "error" THEN "failed" ELSE read.currentStage

\* a read and the read that follows it show stages in the fixed order
ReadAdvances(old, new) ==
    \/ old.status = "none"
    \/ old.status \in {"completed", "error"} /\ new = old
    \/ /\ old.status = "processing"
       /\ \/ ObservedStage(new) = "failed"
          \/ StageRank(ObservedStage(new)) >= StageRank(ObservedStage(old))

\* C11: successive status reads of a session never show an earlier stage than
\* the read before (a read of completed or failed is followed by the same read
\* only), and a session whose orchestration runs ends completed or failed.
C11_StageOrderObserved ==
    /\ [][\A s \in Sessions : ReadAdvances(lastRead[s], lastRead'[s])]_vars
    /\ \A s \in {"s1"} :
           (orchestrations[s] > 0) ~> Terminal(SessionOf(registry, s))
    /\ [](\A s \in DOMAIN registry :
             Terminal(registry[s])
             <=> StatusProjection(registry[s]).status \in {"completed", "error"})

\* a read showing the end of the pipeline
C11_Witness ==
    /\ lastRead["s1"].status = "completed"
    /\ lastRead["s1"].currentStage = "completed"
    /\ invoked["s1"] = StageSet

\* C12: once a session is completed or failed, no step changes its record any
\* more (so it entered that stage once); reads and rejected runJob calls remain.
C12_TerminalIsFinal ==
    [][\A s \in DOMAIN registry :
           Terminal(registry[s]) => SessionOf(registry', s) = registry[s]]_vars

\* a failed session that was read and for which another runJob was refused
C12_Witness ==
    /\ "s1" \in DOMAIN registry
    /\ registry["s1"].stage = "failed"
    /\ lastRead["s1"].status = "error"
    /\ "s1" \in rejectedRuns

\* C13: a stage that failed with badInput or auth has failed the session with
\* that error, and the stage is not invoked again, whatever retries were left.
C13_NonRetryableFailsAtOnce ==
    /\ [](\A s \in DOMAIN registry :
             stageFailures[s] \cap NonRetryableKinds # {}
             => /\ registry[s].stage = "failed"
                /\ registry[s].error.kind \in NonRetryableKinds
                /\ stageInvocations[s] = registry[s].retryCount + 1)
    /\ [][\A s \in DOMAIN registry :
              stageFailures[s] \cap NonRetryableKinds # {}
              => /\ stageInvocations'[s] = stageInvocations[s]
                 /\ invoked'[s] = invoked[s]]_vars

\* a session failed by badInput on the first retry of a stage, retries left
C13_Witness ==
    /\ "s1" \in DOMAIN registry
    /\ registry["s1"].stage = "failed"
    /\ registry["s1"].error.kind = "badInput"
    /\ stageFailures["s1"] = {"network", "badInput"}
    /\ stageInvocations["s1"] = 2
    /\ registry["s1"].retryCount < StageRetryCap

\* C14: a stage that failed with network errors only was invoked at most
\* cap + 1 times, and the session is failed exactly when it was cap + 1 times.
C14_NetworkRetriedToCap ==
    \A s \in DOMAIN registry :
        stageFailures[s] = {"network"}
        => /\ stageInvocations[s] <= StageRetryCap + 1
           /\ registry[s].stage = "failed" <=> stageInvocations[s] = StageRetryCap + 1
           /\ registry[s].stage = "failed" => registry[s].error.kind = "network"
           /\ registry[s].stage # "failed" => registry[s].retryCount = stageInvocations[s]

\* the translate stage gave up after cap + 1 network failures
C14_Witness ==
    /\ "s1" \in DOMAIN registry
    /\ registry["s1"].stage = "failed"
    /\ registry["s1"].error.stage = "translate"
    /\ stageFailures["s1"] = {"network"}
    /\ stageInvocations["s1"] = StageRetryCap + 1

\* C15: of a failed session, only stages up to the failing one were invoked
\* and none is invoked afterwards; its status is error and its currentStage the
\* failing stage.
C15_FailureStopsPipeline ==
    /\ [](\A s \in DOMAIN registry :
             registry[s].stage = "failed"
             => /\ \A stage \in invoked[s] :
                       StageRank(stage) <= StageRank(registry[s].error.stage)
                /\ StatusProjection(registry[s]).status = "error"
                /\ StatusProjection(registry[s]).currentStage = registry[s].error.stage
                /\ registry[s].error.stage \in invoked[s]
                /\ lastRead[s].status = "error"
                   => lastRead[s].currentStage = registry[s].error.stage)
    /\ [][\A s \in DOMAIN registry :
              registry[s].stage = "failed" => invoked'[s] = invoked[s]]_vars

\* download failed with badInput, and the read says so
C15_Witness ==
    /\ lastRead["s1"].status = "error"
    /\ lastRead["s1"].currentStage = "download"
    /\ lastRead["s1"].error.kind = "badInput"
    /\ invoked["s1"] = {"download"}

\* C16: of two successive status reads of a session, neither showing a failed
\* session, the later one never shows less progress.
C16_ProgressObservedMonotone ==
    [][\A s \in Sessions :
           /\ lastRead[s].status \in {"processing", "completed"}
           /\ lastRead'[s].status \in {"processing", "completed"}
           => lastRead'[s].progress >= lastRead[s].progress]_vars

\* a read lagging behind the orchestrator, which retried in between
C16_Witness ==
    /\ lastRead["s1"].status = "processing"
    /\ lastRead["s1"].progress = 55
    /\ "s1" \in DOMAIN registry
    /\ registry["s1"].stage = "overlay"
    /\ registry["s1"].retryCount = 1

\* C17: a session never has two orchestrations in flight, a runJob for a
\* session with one in flight starts nothing, and a step of one session leaves
\* the record and the orchestration of every other session alone.
C17_OneOrchestrationPerSession ==
    /\ [](\A s \in Sessions : orchestrations[s] <= 1)
    /\ [][\A s \in Sessions :
              orchestrations[s] > 0 => orchestrations'[s] <= orchestrations[s]]_vars
    /\ [][\A s, t \in Sessions :
              /\ s # t
              /\ SessionOf(registry', s) # SessionOf(registry, s)
              => /\ SessionOf(registry', t) = SessionOf(registry, t)
                 /\ orchestrations'[t] = orchestrations[t]]_vars

\* both sessions in flight at different stages, a second runJob refused
C17_Witness ==
    /\ orchestrations = [s \in Sessions |-> 1]
    /\ registry["s1"].stage = "translate"
    /\ registry["s2"].stage = "download"
    /\ "s1" \in rejectedRuns

-----------------------------------------------------------------------------
(* The poller as an observer of the job *)

\* C19: a step of pollForCompletion or checkStatus (a request going out, a
\* status or a failure coming back, the poll giving up or being abandoned)
\* leaves the session records, the orchestrations and what they invoked as
\* they are; all the server does for it is a status read.
C19_PollingOnlyObserves ==
    [][pollVars' # pollVars
       => /\ UNCHANGED <<registry, orchestrations, rejectedRuns, invoked,
                         stageInvocations, stageFailures>>
          /\ \A s \in Sessions :
                 lastRead'[s] # lastRead[s]
                 => /\ s = pollSessionId'
                    /\ lastRead'[s] = StatusProjection(registry[s])]_vars

\* a poll that met a transport failure, read the running job and was then
\* abandoned, after which the job went on to complete
C19_Witness ==
    /\ pollPc = "abandoned"
    /\ Len(fetched) >= 2
    /\ IsTransportFailure(fetched[1])
    /\ lastRead["s1"].status = "processing"
    /\ "s1" \in DOMAIN registry
    /\ registry["s1"].stage = "completed"

-----------------------------------------------------------------------------
(* The auto-retry preference, the maxRetries argument and the ways a poll    *)
(* settles                                                                   *)

\* C21: whatever the auto-retry preference is and whenever it is toggled, the
\* poller counts failures up to this.maxRetries, backs off pollInterval times
\* the counter and rejects exactly at the cap; a toggle changes nothing of a
\* poll.
C21_ToggleLeavesPollerAlone ==
    /\ [](/\ retries <= maxRetries
          /\ pollPc = "rejected" => retries = maxRetries
          /\ pollPc = "sleepRetry"
             => /\ retries < maxRetries
                /\ pollSleeps[Len(pollSleeps)] = pollInterval * retries)
    /\ [][autoRetryEnabled' # autoRetryEnabled => UNCHANGED pollVars]_vars

\* with auto-retry switched off, the poll is in its second backoff
C21_Witness ==
    /\ ~autoRetryEnabled
    /\ pollPc = "sleepRetry"
    /\ retries = 2
    /\ \A i \in 1..Len(fetched) : IsTransportFailure(fetched[i])
    /\ pollSleeps = <<2000, 4000>>

\* C22: a call given the maxRetries argument n invokes the operation at most
\* n + 1 times.
C22_ArgumentBoundsInvocations ==
    (retryPc # "idle" /\ retryArg # <<>>) => Len(invocations) <= retryArg[1] + 1

\* C24: a poll that resolved did so with a completed status, and a poll that
\* rejected carries an error, whatever this.maxRetries is.
C24_SettlesTwoWays ==
    /\ pollPc = "resolved"
       => /\ pollResult.kind = "resolved"
          /\ pollResult.value.status = "completed"
    /\ pollPc = "rejected"
       => /\ pollResult.kind = "rejected"
          /\ pollResult.error # NoError

\* C25: after a status of a job still processing was fetched, the poll waits
\* pollInterval and leaves the failure counter alone, also when the callback
\* threw on that status.
C25_CallbackFailureNotCounted ==
    (/\ Len(fetched) > 0
     /\ IsProcessingFetch(fetched[Len(fetched)])
     /\ fetched[Len(fetched)].cbThrew
     /\ Len(requests) = Len(fetched))
    => /\ pollPc = "sleepOk"
       /\ pollSleeps[Len(pollSleeps)] = pollInterval

-----------------------------------------------------------------------------
(* Properties of DubbingApp and of submitBatch *)

\* C23: at most one run is in flight, and isProcessing is set whenever one is.
C23_SingleRunInFlight ==
    /\ Cardinality(RunsInFlight) <= 1
    /\ RunsInFlight # {} => isProcessing

\* C26: a settled startDubbing call resolved, left isProcessing cleared and
\* the form controls enabled when it settled, and called showError once if
\* the submission or the poll failed and not at all otherwise.
C26_StartDubbingCleansUp ==
    \A r \in RunIds :
        runs[r].pc = "settled"
        => /\ ~runs[r].rejected
           /\ ~runs[r].settledProcessing
           /\ ~runs[r].settledDisabled
           /\ runs[r].errorsShown =
                  IF runs[r].submitFailed \/ runs[r].pollFailed THEN 1 ELSE 0

\* three settled runs: a failed submission, a failed poll, a completed job
C26_Witness ==
    /\ \A r \in RunIds : runs[r].pc = "settled"
    /\ runs[1].submitFailed
    /\ runs[2].pollFailed
    /\ ~runs[3].submitFailed /\ ~runs[3].pollFailed
    /\ ~isProcessing /\ ~controlsDisabled

\* C27: a run waiting for submitVideo has issued no status request; a polling
\* run polls the session id its submission returned; a run whose submission
\* failed never issued a status request.
C27_PollFollowsSubmit ==
    \A r \in RunIds :
        /\ runs[r].pc = "submitting" => ~runs[r].requested /\ runs[r].polled = "null"
        /\ runs[r].pc = "polling"
           => /\ runs[r].requested
              /\ runs[r].session \in Sessions
              /\ runs[r].polled = runs[r].session
        /\ (runs[r].pc = "settled" /\ runs[r].submitFailed) => ~runs[r].requested

\* after a failed submission, the next run polls the session it was given,
\* not the one the application held from the run before
C27_Witness ==
    /\ runs[1].pc = "settled" /\ ~runs[1].submitFailed /\ runs[1].requested
    /\ runs[2].pc = "settled" /\ runs[2].submitFailed
    /\ runs[3].pc = "polling" /\ runs[3].polled = "s2"

\* C28: while the statuses a run reads do not go back in stage or progress, no
\* step of the run lowers the progress it shows.
C28_ShownProgressMonotone ==
    [][\A r \in RunIds :
           (InFlight(runs[r]) /\ InFlight(runs'[r]) /\ runs'[r].monotone)
           => runs'[r].shown >= runs[r].shown]_vars

\* C29: the progress bar never gets more than 99 percent from a status whose
\* stage is not completed; a reported progress of 100 or more is shown as 99.
C29_ShownProgressBelowFull ==
    /\ progressFill <= 99
    /\ \A r \in RunIds :
           /\ runs[r].shown <= 99
           /\ (/\ runs[r].pc = "polling"
               /\ runs[r].lastRead.status # "none"
               /\ runs[r].lastRead.current_stage # "completed"
               /\ runs[r].lastRead.progress >= 100)
              => runs[r].shown = 99 /\ progressFill = 99

\* the server reports more than the scale during overlay
C29_Witness ==
    /\ runs[1].pc = "polling"
    /\ runs[1].lastRead.current_stage = "overlay"
    /\ runs[1].lastRead.progress = 150
    /\ progressFill = 99

\* C30: submitVideo is called for the URLs in input order, each call only once
\* the result of the one before is recorded; result k is that of URL k, with
\* success = false exactly for a rejected submission, after which the loop
\* goes on; onProgress gets current = k, the total and URL k before URL k is
\* submitted; a batch that returns has one result per URL.
C30_BatchSequential ==
    /\ Len(batchResults) <= Len(batchInput)
    /\ \A k \in 1..Len(batchResults) :
           /\ batchResults[k].url = batchInput[k]
           /\ batchResults[k].success <=> batchOutcomes[k] = "resolved"
    /\ \A k \in 1..Len(batchSubmits) :
           /\ batchSubmits[k].url = batchInput[k]
           /\ batchSubmits[k].done = k - 1
    /\ Len(batchSubmits) = Len(batchResults) + (IF batchPc = "submitting" THEN 1 ELSE 0)
    /\ batchHasProgress
       => /\ Len(batchSubmits) <= Len(batchProgress)
          /\ \A k \in 1..Len(batchProgress) :
                 /\ batchProgress[k].current = k
                 /\ batchProgress[k].total = Len(batchInput)
                 /\ batchProgress[k].currentUrl = batchInput[k]
                 /\ batchProgress[k].submitted = k - 1
    /\ batchPc = "resolved" => Len(batchResults) = Len(batchInput)

\* a batch of three with a failure in the middle, returned
C30_Witness ==
    /\ batchPc = "resolved"
    /\ batchHasProgress
    /\ Len(batchInput) = 3
    /\ batchOutcomes = <<"resolved", "rejected", "resolved">>
    /\ Len(batchProgress) = 3
    /\ ~batchResults[2].success

====
